---- MODULE Spec2Model ----
(***************************************************************************)
(* Model of the infrastructure-graph collector of DPanel                   *)
(* (src/src-tauri/src/infrastructure_graph.rs).                            *)
(*                                                                         *)
(* A Rust String is a sequence of one-character strings, so that trim,     *)
(* split, contains, starts_with and the [..12] slice are computed as the   *)
(* code computes them.  The managed host is the function `host.out` from   *)
(* commands to their results; a pass of get_infrastructure_graph is a      *)
(* process that holds the ssh_client mutex from its first step to its      *)
(* return and runs one layer of the function per step.                     *)
(*                                                                         *)
(* Not modelled: the serde_json metadata of nodes and edges, the fields    *)
(* ssl_enabled and root_path of NginxVhost (they only feed metadata), the  *)
(* '\r' stripping of str::lines, and non-ASCII text (the byte slice        *)
(* id[..12] is taken on ASCII ids only).                                   *)
(***************************************************************************)
EXTENDS Integers, Sequences, FiniteSets, TLC

(***************************************************************************)
(* Bounds                                                                  *)
(***************************************************************************)
\* largest number of commands that fail on one host
MaxFailures == 2

\* the invocations of get_infrastructure_graph that may run concurrently
Passes == {1, 2}
NoPass == 0

(***************************************************************************)
(* Rust str operations                                                     *)
(***************************************************************************)
Min(a, b) == IF a < b THEN a ELSE b

IsWhitespace(c) == c \in {" ", "\n", "\t"}

RECURSIVE TrimStart(_)
TrimStart(s) ==
    IF s # <<>> /\ IsWhitespace(Head(s)) THEN TrimStart(Tail(s)) ELSE s

RECURSIVE TrimEnd(_)
TrimEnd(s) ==
    IF s # <<>> /\ IsWhitespace(s[Len(s)])
    THEN TrimEnd(SubSeq(s, 1, Len(s) - 1)) ELSE s

Trim(s) == TrimEnd(TrimStart(s))

RECURSIVE TrimEndMatches(_, _)
TrimEndMatches(s, c) ==
    IF s # <<>> /\ s[Len(s)] = c
    THEN TrimEndMatches(SubSeq(s, 1, Len(s) - 1), c) ELSE s

StartsWith(s, p) == Len(p) <= Len(s) /\ SubSeq(s, 1, Len(p)) = p

\* the first position from i on at which pattern p occurs in s, 0 for none
RECURSIVE FindFrom(_, _, _)
FindFrom(s, p, i) ==
    IF i + Len(p) - 1 > Len(s) THEN 0
    ELSE IF SubSeq(s, i, i + Len(p) - 1) = p THEN i
    ELSE FindFrom(s, p, i + 1)

\* str::find: index of the first occurrence, 0 for None
Find(s, p) == FindFrom(s, p, 1)

Contains(s, p) == Find(s, p) # 0

RECURSIVE Split(_, _)
Split(s, p) ==
    LET i == Find(s, p)
    IN  IF i = 0 THEN <<s>>
        ELSE <<SubSeq(s, 1, i - 1)>> \o Split(SubSeq(s, i + Len(p), Len(s)), p)

\* str::lines: split on '\n', a final empty piece is not a line
Lines(s) ==
    LET parts == Split(s, <<"\n">>)
    IN  IF parts[Len(parts)] = <<>> THEN SubSeq(parts, 1, Len(parts) - 1)
        ELSE parts

\* split_whitespace().next(): the first whitespace-delimited token, <<>> for None
RECURSIVE TakeToken(_)
TakeToken(s) ==
    IF s = <<>> \/ IsWhitespace(Head(s)) THEN <<>>
    ELSE <<Head(s)>> \o TakeToken(Tail(s))

FirstToken(s) == TakeToken(TrimStart(s))

RECURSIVE SelectNonEmpty(_)
SelectNonEmpty(ss) ==
    IF ss = <<>> THEN <<>>
    ELSE IF Head(ss) = <<>> THEN SelectNonEmpty(Tail(ss))
    ELSE <<Head(ss)>> \o SelectNonEmpty(Tail(ss))

Range(f) == {f[i] : i \in DOMAIN f}

(***************************************************************************)
(* Command results: Result<String, SshError>                               *)
(***************************************************************************)
Ok(t) == [ok |-> TRUE, val |-> t]
Err(m) == [ok |-> FALSE, val |-> m]

\* Result::unwrap_or_default and Result::unwrap_or_else(|_| d)
UnwrapOr(r, d) == IF r.ok THEN r.val ELSE d

Cmd(kind, arg) == [cmd |-> kind, arg |-> arg]

(***************************************************************************)
(* The managed host: what each command returns                             *)
(***************************************************************************)
VhostNames == {<<"s","i","t","e">>, <<"a","p","i">>}
NetworkIds == {<<"n","0">>, <<"n","1">>, <<"n","2">>}
ContainerNames == {<<"w","e","b">>, <<"a","p","p">>, <<"s","t","a","t","i","c">>, <<"d","b">>}

Commands ==
    {Cmd(k, <<>>) : k \in {"status", "version", "route", "ls_available",
                            "ls_enabled", "ps", "network_ls"}}
    \cup {Cmd("cat", n) : n \in VhostNames}
    \cup {Cmd(k, n) : k \in {"inspect_members", "inspect_subnet"},
                      n \in NetworkIds \ {<<"n","0">>}}
    \cup {Cmd("port", n) : n \in ContainerNames}

\* site configurations
CfgProxyWeb == <<"s","e","r","v","e","r","_","n","a","m","e"," ","a",".","i","o",";","\n","l","i","s","t","e","n"," ","8","0","8","0",";","\n","p","r","o","x","y","_","p","a","s","s"," ","h","t","t","p",":","/","/","w","e","b",":","3","0","0","0",";","\n">>
CfgProxyId == <<"l","i","s","t","e","n"," ","4","4","3"," ","s","s","l",";","\n"," "," ","p","r","o","x","y","_","p","a","s","s"," ","h","t","t","p",":","/","/","a","b","c","1","2","3","d","e","f","4","5","6",":","8","0",";","\n">>
CfgProxyNone == <<"p","r","o","x","y","_","p","a","s","s"," ","h","t","t","p",":","/","/","1","0",".","0",".","0",".","5",":","8","0",";","\n">>
CfgStatic == <<"l","i","s","t","e","n"," ","8","0",";","\n","r","o","o","t"," ","/","v","a","r","/","w","w","w",";","\n">>

\* container listings (id|name|image|state)
PsWeb == <<"a","b","c","1","2","3","d","e","f","4","5","6","7","|","w","e","b","|","n","g","i","n","x","|","r","u","n","n","i","n","g","\n">>
PsWebApp == <<"a","b","c","1","2","3","d","e","f","4","5","6","7","|","w","e","b","|","n","g","i","n","x","|","r","u","n","n","i","n","g","\n","f","0","0","d","|","a","p","p","|","n","o","d","e","|","e","x","i","t","e","d","\n">>
PsWebStatic == <<"a","b","c","1","2","3","d","e","f","4","5","6","7","|","w","e","b","|","n","g","i","n","x","|","r","u","n","n","i","n","g","\n","0","1","2","3","4","5","6","7","8","9","a","b","c","d","e","f","|","s","t","a","t","i","c","|","h","t","t","p","d","|","r","u","n","n","i","n","g","\n">>
PsJunkApp == <<"j","u","n","k","|","l","i","n","e","\n","f","0","0","d","|","a","p","p","|","n","o","d","e","|","e","x","i","t","e","d","\n">>
PsWebNoId == <<"a","b","c","1","2","3","d","e","f","4","5","6","7","|","w","e","b","|","n","g","i","n","x","|","r","u","n","n","i","n","g","\n","|","d","b","|","r","e","d","i","s","|","r","u","n","n","i","n","g","\n">>

\* network listings (id|name|driver|scope)
NetAppnet == <<"n","1","|","a","p","p","n","e","t","|","b","r","i","d","g","e","|","l","o","c","a","l","\n">>
NetAll == <<"n","1","|","a","p","p","n","e","t","|","b","r","i","d","g","e","|","l","o","c","a","l","\n","n","0","|","h","o","s","t","|","h","o","s","t","|","l","o","c","a","l","\n","n","2","|","b","a","c","k","n","e","t","|","b","r","i","d","g","e","|","l","o","c","a","l","\n">>

\* port listings
PortOne == <<"8","0","/","t","c","p"," ","-",">"," ","0",".","0",".","0",".","0",":","8","0","8","0","\n">>
PortTwice == <<"8","0","/","t","c","p"," ","-",">"," ","0",".","0",".","0",".","0",":","8","0","8","0","\n","8","0","/","t","c","p"," ","-",">"," ","[",":",":","]",":","8","0","8","0","\n">>
PortNoProto == <<"3","0","0","0"," ","-",">"," ","0",".","0",".","0",".","0",":","8","0","8","0","\n">>
PortUdp == <<"5","3","/","u","d","p"," ","-",">"," ","0",".","0",".","0",".","0",":","5","3","\n">>
PortNoArrow == <<"n","o"," ","m","a","p","p","i","n","g","\n">>
PortNoHost == <<"8","0","/","t","c","p"," ","-",">"," ","\n">>

\* the outputs of a host on which every command succeeds
Outputs(t) ==
    [c \in Commands |->
        CASE c.cmd = "status" -> t.status
          [] c.cmd = "version" -> t.version
          [] c.cmd = "route" -> t.route
          [] c.cmd = "ls_available" -> t.available
          [] c.cmd = "ls_enabled" -> t.enabled
          [] c.cmd = "cat" -> IF c.arg = <<"s","i","t","e">> THEN t.catSite ELSE t.catApi
          [] c.cmd = "ps" -> t.ps
          [] c.cmd = "network_ls" -> t.netls
          [] c.cmd = "inspect_members" ->
                IF c.arg = <<"n","1">> THEN t.membersN1 ELSE t.membersN2
          [] c.cmd = "inspect_subnet" ->
                IF c.arg = <<"n","1">> THEN <<"1","7","2",".","1","8",".","0",".","0","/","1","6","\n">> ELSE <<"\n">>
          [] c.cmd = "port" ->
                IF c.arg = <<"w","e","b">> THEN t.portWeb
                ELSE IF c.arg = <<"a","p","p">> THEN t.portApp ELSE <<>>]

\* two vhosts that both proxy to web, two containers, three networks
Rich ==
    [status |-> <<"a","c","t","i","v","e","\n">>, version |-> <<"1",".","1","8","\n">>, route |-> <<"e","n","s","3","\n">>,
     available |-> <<"s","i","t","e","\n","a","p","i","\n">>, enabled |-> <<"s","i","t","e","\n">>,
     catSite |-> CfgProxyWeb, catApi |-> CfgProxyId,
     ps |-> PsWebApp, netls |-> NetAll,
     membersN1 |-> <<"w","e","b",",","a","p","p",",">>, membersN2 |-> <<"a","b","c","1","2","3","d","e","f","4","5","6","7",",">>,
     portWeb |-> PortOne, portApp |-> PortUdp]

\* the end-to-end scenario: one vhost, one container, one network, one port
EndToEnd ==
    [Rich EXCEPT !.available = <<"s","i","t","e","\n">>, !.ps = PsWeb, !.netls = NetAppnet,
                 !.membersN1 = <<"w","e","b",",">>]

VhostFamily ==
    {[Rich EXCEPT !.available = a, !.enabled = e, !.catSite = c, !.ps = p] :
        a \in {<<"s","i","t","e","\n","a","p","i","\n">>, <<"\n","s","i","t","e","\n">>, <<>>},
        e \in {<<"s","i","t","e","\n">>, <<>>},
        c \in {CfgProxyWeb, CfgProxyId, CfgProxyNone, CfgStatic},
        p \in {<<>>, PsWeb, PsWebApp, PsWebStatic, PsJunkApp, PsWebNoId}}

NetworkFamily ==
    {[Rich EXCEPT !.netls = n, !.membersN1 = m, !.ps = p] :
        n \in {<<>>, NetAppnet, NetAll},
        m \in {<<>>, <<"w","e","b",",">>, <<"w","e","b",",","a","p","p",",">>, <<"a","b","c","1","2","3","d","e","f","4","5","6","7","8","9","0",",","f","0","0",",">>, <<"f","0","0","d","c","a","f","e",",">>},
        p \in {<<>>, PsWeb, PsWebApp, PsWebStatic, PsJunkApp, PsWebNoId}}

PortFamily ==
    {[Rich EXCEPT !.portWeb = w, !.portApp = a] :
        w \in {<<>>, PortOne, PortTwice, PortNoArrow, PortNoHost},
        a \in {<<>>, PortNoProto, PortUdp}}

ProbeFamily ==
    {[Rich EXCEPT !.status = s] :
        s \in {<<"a","c","t","i","v","e">>, <<" ","a","c","t","i","v","e"," ","\n">>, <<"i","n","a","c","t","i","v","e","\n">>, <<"a","c","t","i","v","a","t","i","n","g","\n">>}}

Topologies ==
    {Rich, EndToEnd} \cup VhostFamily \cup NetworkFamily \cup PortFamily
    \cup ProbeFamily

FailureSets == {f \in SUBSET Commands : Cardinality(f) <= MaxFailures}

SshFailure == <<"s","s","h"," ","f","a","i","l","u","r","e">>

HostOf(t, failing, connected) ==
    [connected |-> connected,
     out |-> [c \in Commands |->
                IF c \in failing THEN Err(SshFailure) ELSE Ok(Outputs(t)[c])]]

Hosts ==
    {HostOf(t, {}, TRUE) : t \in Topologies}
    \cup {HostOf(Rich, f, TRUE) : f \in FailureSets}
    \cup {HostOf(Rich, {}, FALSE)}

\* the hosts against which two invocations are made at once
ConcurrentHosts ==
    {HostOf(t, {}, TRUE) : t \in {Rich, EndToEnd}}
    \cup {HostOf(Rich, {c}, TRUE) : c \in Commands}
    \cup {HostOf(Rich, {}, FALSE)}

\* a host and the invocations the dashboard makes against it
Invocations ==
    {<<h, {1}>> : h \in Hosts} \cup {<<h, Passes>> : h \in ConcurrentHosts}

(***************************************************************************)
(* State                                                                   *)
(***************************************************************************)
VARIABLES
    host,              \* the managed host: connected, and command -> result
    invoked,           \* the passes the dashboard invokes
    lock,              \* holder of the ssh_client mutex, NoPass when free
    pc,                \* pc[p]: the position of pass p in the function
    nodes,             \* nodes[p]: the local Vec<InfraGraphNode>
    edges,             \* edges[p]: the local Vec<InfraGraphEdge>
    nginx_running,     \* nginx_running[p]
    vhosts,            \* vhosts[p]: Vec<NginxVhost>
    vhost_to_backend,  \* vhost_to_backend[p]: HashMap<String, String>
    containers,        \* containers[p]: Vec<DockerContainer>
    networks,          \* networks[p]: Vec<DockerNetwork>
    result             \* result[p]: what the invocation returned

vars == <<host, invoked, lock, pc, nodes, edges, nginx_running, vhosts,
          vhost_to_backend, containers, networks, result>>

locals == <<nginx_running, vhosts, vhost_to_backend, containers, networks>>

\* SshClient::execute_command on the connected host
execute_command(c) == host.out[c]

Some(x) == <<x>>
None == <<>>

InfraGraphNode(id, label, type, status) ==
    [id |-> id, label |-> label, node_type |-> type, status |-> status]

InfraGraphEdge(source, target, type, label) ==
    [source |-> source, target |-> target, edge_type |-> type, label |-> label]

(***************************************************************************)
(* Fact extractors                                                         *)
(***************************************************************************)
\* the loop shared by extract_server_name, extract_listen_port and
\* extract_proxy_target: the argument of the first line that starts with the
\* keyword and has a space, without its trailing ';'
RECURSIVE FirstDirective(_, _)
FirstDirective(lines, keyword) ==
    IF lines = <<>> THEN None
    ELSE LET line == Trim(Head(lines))
             start == Find(line, <<" ">>)
         IN  IF StartsWith(line, keyword) /\ start # 0
             THEN Some(TrimEndMatches(Trim(SubSeq(line, start, Len(line))), ";"))
             ELSE FirstDirective(Tail(lines), keyword)

extract_server_name(content) ==
    LET d == FirstDirective(Lines(content), <<"s","e","r","v","e","r","_","n","a","m","e">>)
    IN  IF d = None THEN None ELSE Some(FirstToken(d[1]))

extract_listen_port(content) ==
    LET d == FirstDirective(Lines(content), <<"l","i","s","t","e","n">>)
    IN  IF d = None THEN None
        ELSE Some(IF FirstToken(d[1]) = <<>> THEN <<"8","0">> ELSE FirstToken(d[1]))

extract_proxy_target(vhost_name) ==
    LET r == execute_command(Cmd("cat", vhost_name))
        d == FirstDirective(Lines(r.val), <<"p","r","o","x","y","_","p","a","s","s">>)
    IN  IF ~r.ok THEN Err(r.val)
        ELSE IF d = None THEN Ok(<<"s","t","a","t","i","c">>) ELSE Ok(d[1])

\* variant: a vhost whose configuration cannot be read is left out
RECURSIVE VhostsOfSkipUnreadable(_, _)
VhostsOfSkipUnreadable(names, enabled) ==
    IF names = <<>> THEN <<>>
    ELSE LET name == Head(names)
             r == execute_command(Cmd("cat", name))
             sn == extract_server_name(r.val)
             lp == extract_listen_port(r.val)
         IN  IF name = <<>> \/ ~r.ok
             THEN VhostsOfSkipUnreadable(Tail(names), enabled)
             ELSE <<[name |-> name,
                     enabled |-> name \in Range(enabled),
                     server_name |-> IF sn = None THEN name ELSE sn[1],
                     listen_port |-> IF lp = None THEN <<"8","0">> ELSE lp[1]]>>
                  \o VhostsOfSkipUnreadable(Tail(names), enabled)

RECURSIVE VhostsOf(_, _)
VhostsOf(names, enabled) ==
    IF names = <<>> THEN <<>>
    ELSE LET name == Head(names)
             content == UnwrapOr(execute_command(Cmd("cat", name)), <<>>)
             sn == extract_server_name(content)
             lp == extract_listen_port(content)
         IN  IF name = <<>> THEN VhostsOf(Tail(names), enabled)
             ELSE <<[name |-> name,
                     enabled |-> name \in Range(enabled),
                     server_name |-> IF sn = None THEN name ELSE sn[1],
                     listen_port |-> IF lp = None THEN <<"8","0">> ELSE lp[1]]>>
                  \o VhostsOf(Tail(names), enabled)

get_vhosts_for_graph ==
    LET available == UnwrapOr(execute_command(Cmd("ls_available", <<>>)), <<>>)
        enabled_output == UnwrapOr(execute_command(Cmd("ls_enabled", <<>>)), <<>>)
    IN  Ok(VhostsOf(Lines(available), Lines(enabled_output)))

RECURSIVE ContainersOf(_)
ContainersOf(lines) ==
    IF lines = <<>> THEN <<>>
    ELSE LET parts == Split(Head(lines), <<"|">>)
         IN  IF Len(parts) >= 4
             THEN <<[id |-> parts[1], name |-> parts[2], image |-> parts[3],
                     state |-> parts[4]]>> \o ContainersOf(Tail(lines))
             ELSE ContainersOf(Tail(lines))

get_containers_for_graph ==
    LET ps_output == execute_command(Cmd("ps", <<>>))
    IN  IF ~ps_output.ok THEN Err(ps_output.val)
        ELSE Ok(ContainersOf(Lines(ps_output.val)))

RECURSIVE NetworksOf(_)
NetworksOf(lines) ==
    IF lines = <<>> THEN <<>>
    ELSE LET parts == Split(Head(lines), <<"|">>)
             network_id == parts[1]
             network_name == parts[2]
             containers_output ==
                 UnwrapOr(execute_command(Cmd("inspect_members", network_id)), <<>>)
             subnet_output ==
                 UnwrapOr(execute_command(Cmd("inspect_subnet", network_id)), <<>>)
         IN  IF Len(parts) >= 4 /\ network_name \notin {<<"n","u","l","l">>, <<"h","o","s","t">>}
             THEN <<[id |-> network_id, name |-> network_name,
                     driver |-> parts[3], scope |-> parts[4],
                     subnet |-> IF Trim(subnet_output) = <<>> THEN None
                                ELSE Some(Trim(subnet_output)),
                     containers |->
                         SelectNonEmpty(Split(TrimEndMatches(containers_output, ","),
                                              <<",">>))]>>
                  \o NetworksOf(Tail(lines))
             ELSE NetworksOf(Tail(lines))

\* variant: a failed network listing degrades to no networks
get_docker_networks_or_default ==
    Ok(NetworksOf(Lines(UnwrapOr(execute_command(Cmd("network_ls", <<>>)), <<>>))))

get_docker_networks_for_graph ==
    LET output == execute_command(Cmd("network_ls", <<>>))
    IN  IF ~output.ok THEN Err(output.val)
        ELSE Ok(NetworksOf(Lines(output.val)))

\* variant: the host port is the piece after the first ':' of the binding
RECURSIVE PortsOfFirstColon(_)
PortsOfFirstColon(lines) ==
    IF lines = <<>> THEN <<>>
    ELSE LET parts == Split(Head(lines), <<"-",">">>)
             container_port_full == Trim(parts[1])
             host_binding == Trim(parts[2])
             slash == Split(container_port_full, <<"/">>)
             colon == Split(host_binding, <<":">>)
             host_port == IF Len(colon) >= 2 THEN colon[2] ELSE <<>>
         IN  IF Len(parts) = 2 /\ host_port # <<>>
             THEN <<[host_ip |-> <<"0",".","0",".","0",".","0">>, host_port |-> host_port,
                     container_port |-> slash[1],
                     protocol |-> IF Len(slash) >= 2 THEN slash[2] ELSE <<"t","c","p">>]>>
                  \o PortsOfFirstColon(Tail(lines))
             ELSE PortsOfFirstColon(Tail(lines))

RECURSIVE PortsOf(_)
PortsOf(lines) ==
    IF lines = <<>> THEN <<>>
    ELSE LET parts == Split(Head(lines), <<"-",">">>)
             container_port_full == Trim(parts[1])
             host_binding == Trim(parts[2])
             slash == Split(container_port_full, <<"/">>)
             colon == Split(host_binding, <<":">>)
             host_port == colon[Len(colon)]
         IN  IF Len(parts) = 2 /\ host_port # <<>>
             THEN <<[host_ip |-> <<"0",".","0",".","0",".","0">>, host_port |-> host_port,
                     container_port |-> slash[1],
                     protocol |-> IF Len(slash) >= 2 THEN slash[2] ELSE <<"t","c","p">>]>>
                  \o PortsOf(Tail(lines))
             ELSE PortsOf(Tail(lines))

get_container_ports(container_name) ==
    PortsOf(Lines(UnwrapOr(execute_command(Cmd("port", container_name)), <<>>)))

(***************************************************************************)
(* Graph assembler: get_infrastructure_graph, one layer per step           *)
(***************************************************************************)
\* &container.id[..12.min(container.id.len())]
ShortId(id) == SubSeq(id, 1, Min(12, Len(id)))

VhostId(name) == <<"v","h","o","s","t",":">> \o name
ContainerId(name) == <<"c","o","n","t","a","i","n","e","r",":">> \o name
NetworkId(name) == <<"n","e","t","w","o","r","k",":">> \o name
HostPortId(port) == <<"h","o","s","t","p","o","r","t",":">> \o port

\* the orders in which a HashMap with key set K can be iterated
Orderings(K) == {o \in [1..Cardinality(K) -> K] : Range(o) = K}

Init ==
    /\ \E i \in Invocations : host = i[1] /\ invoked = i[2]
    /\ lock = NoPass
    /\ pc = [p \in Passes |-> "idle"]
    /\ nodes = [p \in Passes |-> <<>>]
    /\ edges = [p \in Passes |-> <<>>]
    /\ nginx_running = [p \in Passes |-> FALSE]
    /\ vhosts = [p \in Passes |-> <<>>]
    /\ vhost_to_backend = [p \in Passes |-> <<>>]
    /\ containers = [p \in Passes |-> <<>>]
    /\ networks = [p \in Passes |-> <<>>]
    /\ result = [p \in Passes |-> [kind |-> "Pending"]]

\* an early return: the guard is dropped, the locals are dead
Fail(p, message) ==
    /\ result' = [result EXCEPT ![p] = [kind |-> "Err", message |-> message]]
    /\ pc' = [pc EXCEPT ![p] = "done"]
    /\ lock' = NoPass

\* variant: the pass does not wait for the mutex
AcquireNoWait(p) ==
    /\ p \in invoked
    /\ pc[p] = "idle"
    /\ host.connected
    /\ lock' = p
    /\ pc' = [pc EXCEPT ![p] = "internet"]
    /\ UNCHANGED <<host, invoked, nodes, edges, locals, result>>

\* state.ssh_client.lock().await, then as_ref().ok_or(..)?
Acquire(p) ==
    /\ p \in invoked
    /\ pc[p] = "idle"
    /\ lock = NoPass
    /\ host.connected
    /\ lock' = p
    /\ pc' = [pc EXCEPT ![p] = "internet"]
    /\ UNCHANGED <<host, invoked, nodes, edges, locals, result>>

NotConnected(p) ==
    /\ p \in invoked
    /\ pc[p] = "idle"
    /\ lock = NoPass
    /\ ~host.connected
    /\ Fail(p, <<"N","o","t"," ","c","o","n","n","e","c","t","e","d"," ","t","o"," ","s","e","r","v","e","r">>)
    /\ UNCHANGED <<host, invoked, nodes, edges, locals>>

LayerInternet(p) ==
    /\ pc[p] = "internet"
    /\ nodes' = [nodes EXCEPT ![p] =
            Append(@, InfraGraphNode(<<"i","n","t","e","r","n","e","t">>, <<"I","n","t","e","r","n","e","t">>, "Internet", "Healthy"))]
    /\ pc' = [pc EXCEPT ![p] = "nginx"]
    /\ UNCHANGED <<host, invoked, lock, edges, locals, result>>

\* variant: the status output is searched for "active" instead of compared
LayerNginxContains(p) ==
    LET nginx_status_output ==
            UnwrapOr(execute_command(Cmd("status", <<>>)), <<"i","n","a","c","t","i","v","e">>)
        running == Contains(nginx_status_output, <<"a","c","t","i","v","e">>)
        nginx_version == UnwrapOr(execute_command(Cmd("version", <<>>)), <<>>)
    IN  /\ pc[p] = "nginx"
        /\ nginx_running' = [nginx_running EXCEPT ![p] = running]
        /\ nodes' = [nodes EXCEPT ![p] =
                Append(@, InfraGraphNode(<<"n","g","i","n","x">>, <<"N","g","i","n","x"," ">> \o Trim(nginx_version),
                                         "Nginx",
                                         IF running THEN "Running" ELSE "Stopped"))]
        /\ edges' = [edges EXCEPT ![p] =
                Append(@, InfraGraphEdge(<<"i","n","t","e","r","n","e","t">>, <<"n","g","i","n","x">>, "routes_to",
                                         Some(<<"8","0","/","4","4","3">>)))]
        /\ pc' = [pc EXCEPT ![p] = "host_network"]
        /\ UNCHANGED <<host, invoked, lock, vhosts, vhost_to_backend, containers,
                       networks, result>>

LayerNginx(p) ==
    LET nginx_status_output ==
            UnwrapOr(execute_command(Cmd("status", <<>>)), <<"i","n","a","c","t","i","v","e">>)
        running == Trim(nginx_status_output) = <<"a","c","t","i","v","e">>
        nginx_version == UnwrapOr(execute_command(Cmd("version", <<>>)), <<>>)
    IN  /\ pc[p] = "nginx"
        /\ nginx_running' = [nginx_running EXCEPT ![p] = running]
        /\ nodes' = [nodes EXCEPT ![p] =
                Append(@, InfraGraphNode(<<"n","g","i","n","x">>, <<"N","g","i","n","x"," ">> \o Trim(nginx_version),
                                         "Nginx",
                                         IF running THEN "Running" ELSE "Stopped"))]
        /\ edges' = [edges EXCEPT ![p] =
                Append(@, InfraGraphEdge(<<"i","n","t","e","r","n","e","t">>, <<"n","g","i","n","x">>, "routes_to",
                                         Some(<<"8","0","/","4","4","3">>)))]
        /\ pc' = [pc EXCEPT ![p] = "host_network"]
        /\ UNCHANGED <<host, invoked, lock, vhosts, vhost_to_backend, containers,
                       networks, result>>

LayerHostNetwork(p) ==
    LET host_interface ==
            Trim(UnwrapOr(execute_command(Cmd("route", <<>>)), <<"e","t","h","0">>))
    IN  /\ pc[p] = "host_network"
        /\ nodes' = [nodes EXCEPT ![p] =
                Append(@, InfraGraphNode(<<"h","o","s","t","_","n","e","t","w","o","r","k">>,
                                         <<"H","o","s","t"," ","(">> \o host_interface \o <<")">>,
                                         "HostNetwork", "Running"))]
        /\ edges' = [edges EXCEPT ![p] =
                Append(@, InfraGraphEdge(<<"h","o","s","t","_","n","e","t","w","o","r","k">>, <<"i","n","t","e","r","n","e","t">>, "outbound",
                                         Some(<<"N","A","T">>)))]
        /\ pc' = [pc EXCEPT ![p] = "vhosts"]
        /\ UNCHANGED <<host, invoked, lock, locals, result>>

\* the loop over &vhosts (lines 95-123)
RECURSIVE VhostNodes(_)
VhostNodes(vs) ==
    IF vs = <<>> THEN <<>>
    ELSE <<InfraGraphNode(VhostId(Head(vs).name), Head(vs).server_name, "Vhost",
                          IF Head(vs).enabled THEN "Healthy" ELSE "Stopped")>>
         \o VhostNodes(Tail(vs))

RECURSIVE VhostEdges(_)
VhostEdges(vs) ==
    IF vs = <<>> THEN <<>>
    ELSE <<InfraGraphEdge(<<"n","g","i","n","x">>, VhostId(Head(vs).name), "serves",
                          Some(Head(vs).listen_port))>>
         \o VhostEdges(Tail(vs))

\* vhost_to_backend.insert for every vhost whose proxy target was read
RECURSIVE VhostBackends(_, _)
VhostBackends(vs, map) ==
    IF vs = <<>> THEN map
    ELSE LET backend == extract_proxy_target(Head(vs).name)
         IN  VhostBackends(Tail(vs),
                           IF backend.ok
                           THEN (VhostId(Head(vs).name) :> backend.val) @@ map
                           ELSE map)

LayerVhosts(p) ==
    LET vs == get_vhosts_for_graph.val
    IN  /\ pc[p] = "vhosts"
        /\ vhosts' = [vhosts EXCEPT ![p] = vs]
        /\ vhost_to_backend' = [vhost_to_backend EXCEPT ![p] = VhostBackends(vs, <<>>)]
        /\ nodes' = [nodes EXCEPT ![p] = @ \o VhostNodes(vs)]
        /\ edges' = [edges EXCEPT ![p] = @ \o VhostEdges(vs)]
        /\ pc' = [pc EXCEPT ![p] = "containers"]
        /\ UNCHANGED <<host, invoked, lock, nginx_running, containers, networks, result>>

\* layer 4: the loop over &containers (lines 128-154); order is the
\* iteration order of vhost_to_backend
\* variant: a node only for the containers that run
RECURSIVE ContainerNodesRunningOnly(_)
ContainerNodesRunningOnly(cs) ==
    IF cs = <<>> THEN <<>>
    ELSE (IF Head(cs).state = <<"r","u","n","n","i","n","g">>
          THEN <<InfraGraphNode(ContainerId(Head(cs).name), Head(cs).name,
                                "Container", "Running")>>
          ELSE <<>>)
         \o ContainerNodesRunningOnly(Tail(cs))

RECURSIVE ContainerNodes(_)
ContainerNodes(cs) ==
    IF cs = <<>> THEN <<>>
    ELSE <<InfraGraphNode(ContainerId(Head(cs).name), Head(cs).name, "Container",
                          IF Head(cs).state = <<"r","u","n","n","i","n","g">> THEN "Running"
                          ELSE "Stopped")>>
         \o ContainerNodes(Tail(cs))

\* variant: the backend is matched against the container name only
BackendMatchesNameOnly(backend, container) ==
    Contains(backend, container.name)

\* the condition of line 144
BackendMatches(backend, container) ==
    \/ Contains(backend, container.name)
    \/ Contains(backend, ShortId(container.id))

\* variant: the loop over the map stops at the first vhost that matches
RECURSIVE ProxyEdgesToFirstMatch(_, _, _)
ProxyEdgesToFirstMatch(container, order, map) ==
    IF order = <<>> THEN <<>>
    ELSE IF BackendMatches(map[Head(order)], container)
    THEN <<InfraGraphEdge(Head(order), ContainerId(container.name),
                          "proxies_to", Some(map[Head(order)]))>>
    ELSE ProxyEdgesToFirstMatch(container, Tail(order), map)

RECURSIVE ProxyEdgesTo(_, _, _)
ProxyEdgesTo(container, order, map) ==
    IF order = <<>> THEN <<>>
    ELSE LET vhost_id == Head(order)
             backend == map[vhost_id]
         IN  (IF BackendMatches(backend, container)
              THEN <<InfraGraphEdge(vhost_id, ContainerId(container.name),
                                    "proxies_to", Some(backend))>>
              ELSE <<>>)
             \o ProxyEdgesTo(container, Tail(order), map)

RECURSIVE ProxyEdges(_, _, _)
ProxyEdges(cs, order, map) ==
    IF cs = <<>> THEN <<>>
    ELSE ProxyEdgesTo(Head(cs), order, map) \o ProxyEdges(Tail(cs), order, map)

LayerContainers(p) ==
    LET r == get_containers_for_graph
    IN  /\ pc[p] = "containers"
        /\ r.ok
        /\ \E order \in Orderings(DOMAIN vhost_to_backend[p]) :
              edges' = [edges EXCEPT ![p] =
                            @ \o ProxyEdges(r.val, order, vhost_to_backend[p])]
        /\ containers' = [containers EXCEPT ![p] = r.val]
        /\ nodes' = [nodes EXCEPT ![p] = @ \o ContainerNodes(r.val)]
        /\ pc' = [pc EXCEPT ![p] = "networks"]
        /\ UNCHANGED <<host, invoked, lock, nginx_running, vhosts, vhost_to_backend,
                       networks, result>>

ContainersFail(p) ==
    LET r == get_containers_for_graph
    IN  /\ pc[p] = "containers"
        /\ ~r.ok
        /\ Fail(p, r.val)
        /\ UNCHANGED <<host, invoked, nodes, edges, locals>>

\* layer 5: the loop over &networks (lines 159-197)
RECURSIVE NetworkNodes(_)
NetworkNodes(ns) ==
    IF ns = <<>> THEN <<>>
    ELSE <<InfraGraphNode(NetworkId(Head(ns).name),
                          Head(ns).name \o <<" ","(">> \o Head(ns).driver \o <<")">>,
                          "DockerNetwork", "Healthy")>>
         \o NetworkNodes(Tail(ns))

\* variant: a member is matched by exact name only
IsMemberByName(network, container) ==
    container.name \in Range(network.containers)

\* the condition of lines 186-187
IsMember(network, container) ==
    \/ container.name \in Range(network.containers)
    \/ \E i \in DOMAIN network.containers :
          StartsWith(network.containers[i], ShortId(container.id))

RECURSIVE ConnectedEdges(_, _)
ConnectedEdges(network, cs) ==
    IF cs = <<>> THEN <<>>
    ELSE (IF IsMember(network, Head(cs))
          THEN <<InfraGraphEdge(ContainerId(Head(cs).name), NetworkId(network.name),
                                "connected_to", None)>>
          ELSE <<>>)
         \o ConnectedEdges(network, Tail(cs))

\* variant: the nat edge of a network points at the internet node
RECURSIVE NetworkEdgesToInternet(_, _)
NetworkEdgesToInternet(ns, cs) ==
    IF ns = <<>> THEN <<>>
    ELSE <<InfraGraphEdge(NetworkId(Head(ns).name), <<"i","n","t","e","r","n","e","t">>, "nat",
                          Some(<<"m","a","s","q","u","e","r","a","d","e">>))>>
         \o ConnectedEdges(Head(ns), cs)
         \o NetworkEdgesToInternet(Tail(ns), cs)

RECURSIVE NetworkEdges(_, _)
NetworkEdges(ns, cs) ==
    IF ns = <<>> THEN <<>>
    ELSE <<InfraGraphEdge(NetworkId(Head(ns).name), <<"h","o","s","t","_","n","e","t","w","o","r","k">>, "nat",
                          Some(<<"m","a","s","q","u","e","r","a","d","e">>))>>
         \o ConnectedEdges(Head(ns), cs)
         \o NetworkEdges(Tail(ns), cs)

LayerNetworks(p) ==
    LET r == get_docker_networks_for_graph
    IN  /\ pc[p] = "networks"
        /\ r.ok
        /\ networks' = [networks EXCEPT ![p] = r.val]
        /\ nodes' = [nodes EXCEPT ![p] = @ \o NetworkNodes(r.val)]
        /\ edges' = [edges EXCEPT ![p] = @ \o NetworkEdges(r.val, containers[p])]
        /\ pc' = [pc EXCEPT ![p] = "ports"]
        /\ UNCHANGED <<host, invoked, lock, nginx_running, vhosts, vhost_to_backend,
                       containers, result>>

NetworksFail(p) ==
    LET r == get_docker_networks_for_graph
    IN  /\ pc[p] = "networks"
        /\ ~r.ok
        /\ Fail(p, r.val)
        /\ UNCHANGED <<host, invoked, nodes, edges, locals>>

\* direct port mappings: the loops of lines 200-239 (the arrow glyph of the
\* port_mapping label is written "->")
RECURSIVE PortNodesOf(_)
PortNodesOf(ports) ==
    IF ports = <<>> THEN <<>>
    ELSE <<InfraGraphNode(HostPortId(Head(ports).host_port),
                          <<"P","o","r","t"," ",":">> \o Head(ports).host_port,
                          "HostPort", "Running")>>
         \o PortNodesOf(Tail(ports))

\* variant: the port_mapping edge leaves the node of the container port
RECURSIVE PortEdgesOfContainerPort(_, _)
PortEdgesOfContainerPort(container, ports) ==
    IF ports = <<>> THEN <<>>
    ELSE <<InfraGraphEdge(<<"i","n","t","e","r","n","e","t">>, HostPortId(Head(ports).host_port),
                          "direct_access", Some(<<":">> \o Head(ports).host_port)),
           InfraGraphEdge(HostPortId(Head(ports).container_port),
                          ContainerId(container.name), "port_mapping",
                          Some(<<"-",">"," ",":">> \o Head(ports).container_port))>>
         \o PortEdgesOfContainerPort(container, Tail(ports))

RECURSIVE PortEdgesOf(_, _)
PortEdgesOf(container, ports) ==
    IF ports = <<>> THEN <<>>
    ELSE <<InfraGraphEdge(<<"i","n","t","e","r","n","e","t">>, HostPortId(Head(ports).host_port),
                          "direct_access", Some(<<":">> \o Head(ports).host_port)),
           InfraGraphEdge(HostPortId(Head(ports).host_port),
                          ContainerId(container.name), "port_mapping",
                          Some(<<"-",">"," ",":">> \o Head(ports).container_port))>>
         \o PortEdgesOf(container, Tail(ports))

RECURSIVE PortNodes(_)
PortNodes(cs) ==
    IF cs = <<>> THEN <<>>
    ELSE PortNodesOf(get_container_ports(Head(cs).name)) \o PortNodes(Tail(cs))

RECURSIVE PortEdges(_)
PortEdges(cs) ==
    IF cs = <<>> THEN <<>>
    ELSE PortEdgesOf(Head(cs), get_container_ports(Head(cs).name))
         \o PortEdges(Tail(cs))

\* variant: the HostPort nodes are inserted at the front of the node list
LayerPortsPrepend(p) ==
    /\ pc[p] = "ports"
    /\ nodes' = [nodes EXCEPT ![p] = PortNodes(containers[p]) \o @]
    /\ edges' = [edges EXCEPT ![p] = @ \o PortEdges(containers[p])]
    /\ pc' = [pc EXCEPT ![p] = "summary"]
    /\ UNCHANGED <<host, invoked, lock, locals, result>>

LayerPorts(p) ==
    /\ pc[p] = "ports"
    /\ nodes' = [nodes EXCEPT ![p] = @ \o PortNodes(containers[p])]
    /\ edges' = [edges EXCEPT ![p] = @ \o PortEdges(containers[p])]
    /\ pc' = [pc EXCEPT ![p] = "summary"]
    /\ UNCHANGED <<host, invoked, lock, locals, result>>

\* lines 242-252
\* variant: every listed container is counted as running
InfraSummaryAllRunning(p) ==
    [total_containers |-> Len(containers[p]),
     running_containers |-> Len(containers[p]),
     total_vhosts |-> Len(vhosts[p]),
     enabled_vhosts |->
         Cardinality({i \in DOMAIN vhosts[p] : vhosts[p][i].enabled}),
     nginx_status |-> IF nginx_running[p] THEN "running" ELSE "stopped",
     total_volumes |-> 0,
     total_networks |-> Len(networks[p])]

InfraSummary(p) ==
    [total_containers |-> Len(containers[p]),
     running_containers |->
         Cardinality({i \in DOMAIN containers[p] :
                         containers[p][i].state = <<"r","u","n","n","i","n","g">>}),
     total_vhosts |-> Len(vhosts[p]),
     enabled_vhosts |->
         Cardinality({i \in DOMAIN vhosts[p] : vhosts[p][i].enabled}),
     nginx_status |-> IF nginx_running[p] THEN "running" ELSE "stopped",
     total_volumes |-> 0,
     total_networks |-> Len(networks[p])]

Return(p) ==
    /\ pc[p] = "summary"
    /\ result' = [result EXCEPT ![p] =
            [kind |-> "Ok", nodes |-> nodes[p], edges |-> edges[p],
             summary |-> InfraSummary(p)]]
    /\ pc' = [pc EXCEPT ![p] = "done"]
    /\ lock' = NoPass
    /\ UNCHANGED <<host, invoked, nodes, edges, locals>>

Next ==
    \E p \in Passes :
        \/ Acquire(p)
        \/ NotConnected(p)
        \/ LayerInternet(p)
        \/ LayerNginx(p)
        \/ LayerHostNetwork(p)
        \/ LayerVhosts(p)
        \/ LayerContainers(p)
        \/ ContainersFail(p)
        \/ LayerNetworks(p)
        \/ NetworksFail(p)
        \/ LayerPorts(p)
        \/ Return(p)

Spec == Init /\ [][Next]_vars

(***************************************************************************)
(* Properties                                                              *)
(***************************************************************************)
Returned(p) == result[p].kind = "Ok"

Failing == {c \in Commands : ~host.out[c].ok}

NodeIds(p) == {n.id : n \in Range(result[p].nodes)}

EdgeTypes(p) == {e.edge_type : e \in Range(result[p].edges)}

\* C1: in every returned graph the source and the target of every edge are
\* ids of nodes of that graph (no dangling edges), whatever the commands
\* returned and whichever degraded commands failed.
NoDanglingEdges ==
    \A p \in Passes :
        Returned(p) =>
            \A e \in Range(result[p].edges) :
                e.source \in NodeIds(p) /\ e.target \in NodeIds(p)

\* a returned graph with every kind of edge, built while some command failed
NoDanglingEdgesWitness ==
    \E p \in Passes :
        /\ Returned(p)
        /\ Failing # {}
        /\ EdgeTypes(p) = {"routes_to", "outbound", "serves", "proxies_to", "nat",
                           "connected_to", "direct_access", "port_mapping"}

\* C2: in every returned graph the node ids are pairwise distinct, also when
\* two port mappings have the same host port.
NodeIdsUnique ==
    \A p \in Passes :
        Returned(p) =>
            \A i, j \in DOMAIN result[p].nodes :
                i # j => result[p].nodes[i].id # result[p].nodes[j].id

\* C3: without a channel, or when the container listing or the network
\* listing fails, the invocation returns an error and no graph.
FatalFailureReturnsError ==
    \A p \in Passes :
        pc[p] = "done"
        /\ (\/ ~host.connected
            \/ ~host.out[Cmd("ps", <<>>)].ok
            \/ ~host.out[Cmd("network_ls", <<>>)].ok)
        => /\ result[p].kind = "Err"
           /\ DOMAIN result[p] = {"kind", "message"}

\* the network listing failed after nodes and edges had been collected
FatalFailureWitness ==
    \E p \in Passes :
        /\ pc[p] = "done"
        /\ result[p].kind = "Err"
        /\ ~host.out[Cmd("network_ls", <<>>)].ok
        /\ Len(nodes[p]) > 3
        /\ Len(edges[p]) > 2

Text(c) == UnwrapOr(host.out[c], <<>>)

\* the names on the lines of the three listings
ListedVhostNames ==
    {l \in Range(Lines(Text(Cmd("ls_available", <<>>)))) : l # <<>>}

ListedNames(c) ==
    {Split(l, <<"|">>)[2] :
        l \in {x \in Range(Lines(Text(c))) : Len(Split(x, <<"|">>)) >= 4}}

ListedContainerNames == ListedNames(Cmd("ps", <<>>))

ListedNetworkNames == ListedNames(Cmd("network_ls", <<>>))

FatalCommandsSucceed ==
    /\ host.connected
    /\ host.out[Cmd("ps", <<>>)].ok
    /\ host.out[Cmd("network_ls", <<>>)].ok

\* C4 as stated: with the channel, the container listing and the network
\* listing available, the invocation returns a graph whichever other commands
\* fail, with a node for every vhost, container and network whose listing
\* line was read.
EveryListedItemHasNode ==
    \A p \in Passes :
        pc[p] = "done" /\ FatalCommandsSucceed =>
            /\ Returned(p)
            /\ \A n \in ListedVhostNames : VhostId(n) \in NodeIds(p)
            /\ \A n \in ListedContainerNames : ContainerId(n) \in NodeIds(p)
            /\ \A n \in ListedNetworkNames : NetworkId(n) \in NodeIds(p)

\* C4 as amended: the same, except that the networks named null and host are
\* skipped and get no node.
DegradedFailuresKeepNodes ==
    \A p \in Passes :
        pc[p] = "done" /\ FatalCommandsSucceed =>
            /\ Returned(p)
            /\ \A n \in ListedVhostNames : VhostId(n) \in NodeIds(p)
            /\ \A n \in ListedContainerNames : ContainerId(n) \in NodeIds(p)
            /\ \A n \in ListedNetworkNames \ {<<"n","u","l","l">>, <<"h","o","s","t">>} :
                  NetworkId(n) \in NodeIds(p)

\* a graph returned although a config read and another degraded command failed
DegradedFailuresWitness ==
    \E p \in Passes :
        /\ Returned(p)
        /\ ~host.out[Cmd("cat", <<"s","i","t","e">>)].ok
        /\ Cardinality(Failing) >= 2
        /\ <<"s","i","t","e">> \in ListedVhostNames
        /\ ListedContainerNames # {}
        /\ ListedNetworkNames # {}

ProxyEdgesFrom(p, vhost_id) ==
    {i \in DOMAIN result[p].edges :
        /\ result[p].edges[i].edge_type = "proxies_to"
        /\ result[p].edges[i].source = vhost_id}

\* C5: a vhost without a proxy_pass line (backend "static") is the source of
\* no proxies_to edge, whatever the containers are called.
StaticVhostHasNoProxyEdge ==
    \A p \in Passes :
        Returned(p) =>
            \A k \in DOMAIN vhost_to_backend[p] :
                vhost_to_backend[p][k] = <<"s","t","a","t","i","c">> => ProxyEdgesFrom(p, k) = {}

\* C6: for every vhost with a recorded proxy_pass target and every listed
\* container there is exactly one proxies_to edge from the vhost to the
\* container when the target contains the container name or the first 12
\* characters of its id, and none when it contains neither.
ProxyEdgeExactlyOnce ==
    \A p \in Passes :
        Returned(p) =>
            \A k \in DOMAIN vhost_to_backend[p] :
                \A i \in DOMAIN containers[p] :
                    LET backend == vhost_to_backend[p][k]
                        c == containers[p][i]
                        short == SubSeq(c.id, 1, Min(12, Len(c.id)))
                        found == {j \in ProxyEdgesFrom(p, k) :
                                     result[p].edges[j].target = <<"c","o","n","t","a","i","n","e","r",":">> \o c.name}
                    IN  backend # <<"s","t","a","t","i","c">> =>
                            Cardinality(found) =
                                IF Contains(backend, c.name) \/ Contains(backend, short)
                                THEN 1 ELSE 0

\* one target that matches a container by short id only, and a pair that
\* does not match
ProxyEdgeWitness ==
    \E p \in Passes :
        /\ Returned(p)
        /\ \E k \in DOMAIN vhost_to_backend[p], i \in DOMAIN containers[p] :
              /\ ~Contains(vhost_to_backend[p][k], containers[p][i].name)
              /\ \E j \in ProxyEdgesFrom(p, k) :
                    result[p].edges[j].target = <<"c","o","n","t","a","i","n","e","r",":">> \o containers[p][i].name
        /\ \E k \in DOMAIN vhost_to_backend[p], i \in DOMAIN containers[p] :
              /\ vhost_to_backend[p][k] # <<"s","t","a","t","i","c">>
              /\ \A j \in ProxyEdgesFrom(p, k) :
                    result[p].edges[j].target # <<"c","o","n","t","a","i","n","e","r",":">> \o containers[p][i].name

HasEdge(p, source, target, type) ==
    \E e \in Range(result[p].edges) :
        e.source = source /\ e.target = target /\ e.edge_type = type

\* C7: a connected_to edge from a container to a network exists exactly when
\* the member list of the network has the container's name or a member that
\* starts with the container's short id (the whole id when shorter than 12).
ConnectedEdgeIff ==
    \A p \in Passes :
        Returned(p) =>
            \A n \in DOMAIN networks[p], i \in DOMAIN containers[p] :
                LET net == networks[p][n]
                    c == containers[p][i]
                    short == IF Len(c.id) < 12 THEN c.id ELSE SubSeq(c.id, 1, 12)
                IN  HasEdge(p, <<"c","o","n","t","a","i","n","e","r",":">> \o c.name, <<"n","e","t","w","o","r","k",":">> \o net.name,
                            "connected_to")
                    <=> \/ \E m \in DOMAIN net.containers : net.containers[m] = c.name
                        \/ \E m \in DOMAIN net.containers :
                              StartsWith(net.containers[m], short)

\* a container connected through an id shorter than 12 characters, and one
\* connected through the first 12 characters of a longer id
ConnectedEdgeWitness ==
    \E p \in Passes :
        /\ Returned(p)
        /\ \E n \in DOMAIN networks[p], i \in DOMAIN containers[p] :
              /\ Len(containers[p][i].id) < 12
              /\ containers[p][i].name \notin Range(networks[p][n].containers)
              /\ HasEdge(p, <<"c","o","n","t","a","i","n","e","r",":">> \o containers[p][i].name,
                         <<"n","e","t","w","o","r","k",":">> \o networks[p][n].name, "connected_to")
        /\ \E n \in DOMAIN networks[p], i \in DOMAIN containers[p] :
              /\ Len(containers[p][i].id) > 12
              /\ containers[p][i].name \notin Range(networks[p][n].containers)
              /\ HasEdge(p, <<"c","o","n","t","a","i","n","e","r",":">> \o containers[p][i].name,
                         <<"n","e","t","w","o","r","k",":">> \o networks[p][n].name, "connected_to")

\* the (owning container, host port) pairs of the discovered port mappings
DiscoveredMappings(p) ==
    UNION {{<<containers[p][i].name, m.host_port>> :
               m \in Range(get_container_ports(containers[p][i].name))} :
           i \in DOMAIN containers[p]}

\* C8: every discovered port mapping has its HostPort node hostport:<host
\* port>, a direct_access edge from internet to it and a port_mapping edge
\* from it to the owning container; and every HostPort node, direct_access
\* edge and port_mapping edge comes from a discovered mapping.
PortMappingGraph ==
    \A p \in Passes :
        Returned(p) =>
            /\ \A m \in DiscoveredMappings(p) :
                  /\ \E n \in Range(result[p].nodes) :
                        n.id = <<"h","o","s","t","p","o","r","t",":">> \o m[2] /\ n.node_type = "HostPort"
                  /\ HasEdge(p, <<"i","n","t","e","r","n","e","t">>, <<"h","o","s","t","p","o","r","t",":">> \o m[2], "direct_access")
                  /\ HasEdge(p, <<"h","o","s","t","p","o","r","t",":">> \o m[2], <<"c","o","n","t","a","i","n","e","r",":">> \o m[1],
                             "port_mapping")
            /\ \A n \in Range(result[p].nodes) :
                  n.node_type = "HostPort" =>
                      \E m \in DiscoveredMappings(p) : n.id = <<"h","o","s","t","p","o","r","t",":">> \o m[2]
            /\ \A e \in Range(result[p].edges) :
                  /\ e.edge_type = "direct_access" =>
                        /\ e.source = <<"i","n","t","e","r","n","e","t">>
                        /\ \E m \in DiscoveredMappings(p) :
                              e.target = <<"h","o","s","t","p","o","r","t",":">> \o m[2]
                  /\ e.edge_type = "port_mapping" =>
                        \E m \in DiscoveredMappings(p) :
                            /\ e.source = <<"h","o","s","t","p","o","r","t",":">> \o m[2]
                            /\ e.target = <<"c","o","n","t","a","i","n","e","r",":">> \o m[1]

\* a graph with the mappings of two containers on different host ports
PortMappingWitness ==
    \E p \in Passes :
        /\ Returned(p)
        /\ \E m1, m2 \in DiscoveredMappings(p) : m1[1] # m2[1] /\ m1[2] # m2[2]
        /\ \E n \in Range(result[p].nodes) : n.node_type = "HostPort"

EndToEndHost == HostOf(EndToEnd, {}, TRUE)

\* C9: on the end-to-end host (nginx active, one enabled vhost proxying to
\* web, container web with an id of 12 or more characters, network appnet
\* with member web, one port line 80/tcp -> 0.0.0.0:8080) the returned graph
\* has exactly the seven nodes and the eight edges of the scenario.
EndToEndGraph ==
    \A p \in Passes :
        host = EndToEndHost /\ Returned(p) =>
            /\ Len(result[p].nodes) = 7
            /\ NodeIds(p) = {<<"i","n","t","e","r","n","e","t">>, <<"n","g","i","n","x">>, <<"h","o","s","t","_","n","e","t","w","o","r","k">>, <<"v","h","o","s","t",":","s","i","t","e">>,
                             <<"c","o","n","t","a","i","n","e","r",":","w","e","b">>, <<"n","e","t","w","o","r","k",":","a","p","p","n","e","t">>, <<"h","o","s","t","p","o","r","t",":","8","0","8","0">>}
            /\ Len(result[p].edges) = 8
            /\ {<<e.source, e.target, e.edge_type>> : e \in Range(result[p].edges)} =
                  {<<<<"i","n","t","e","r","n","e","t">>, <<"n","g","i","n","x">>, "routes_to">>,
                   <<<<"h","o","s","t","_","n","e","t","w","o","r","k">>, <<"i","n","t","e","r","n","e","t">>, "outbound">>,
                   <<<<"n","g","i","n","x">>, <<"v","h","o","s","t",":","s","i","t","e">>, "serves">>,
                   <<<<"v","h","o","s","t",":","s","i","t","e">>, <<"c","o","n","t","a","i","n","e","r",":","w","e","b">>, "proxies_to">>,
                   <<<<"n","e","t","w","o","r","k",":","a","p","p","n","e","t">>, <<"h","o","s","t","_","n","e","t","w","o","r","k">>, "nat">>,
                   <<<<"c","o","n","t","a","i","n","e","r",":","w","e","b">>, <<"n","e","t","w","o","r","k",":","a","p","p","n","e","t">>, "connected_to">>,
                   <<<<"i","n","t","e","r","n","e","t">>, <<"h","o","s","t","p","o","r","t",":","8","0","8","0">>, "direct_access">>,
                   <<<<"h","o","s","t","p","o","r","t",":","8","0","8","0">>, <<"c","o","n","t","a","i","n","e","r",":","w","e","b">>, "port_mapping">>}

\* the scenario has run to its return
EndToEndWitness ==
    \E p \in Passes :
        /\ host = EndToEndHost
        /\ Returned(p)
        /\ Len(containers[p][1].id) >= 12
        /\ nginx_running[p]

\* C10: two passes over the same host return the same set of nodes, the same
\* set of edges and the same summary, whatever order each iterates
\* vhost_to_backend in.
IdempotentPasses ==
    \A p, q \in Passes :
        Returned(p) /\ Returned(q) =>
            /\ Range(result[p].nodes) = Range(result[q].nodes)
            /\ Range(result[p].edges) = Range(result[q].edges)
            /\ result[p].summary = result[q].summary

\* two passes that iterated the map in different orders
IdempotentWitness ==
    /\ Returned(1)
    /\ Returned(2)
    /\ result[1].edges # result[2].edges

\* a pass between its acquisition of the mutex and its return
InPass(p) == pc[p] \notin {"idle", "done"}

\* C11: concurrent invocations are serialized: a pass holds the channel from
\* before its first command until it returns, so while one pass runs its
\* commands every other pass has either not started or already returned.
PassesSerialized ==
    \A p \in Passes :
        /\ InPass(p) => lock = p
        /\ lock = p => InPass(p)
        /\ InPass(p) => \A q \in Passes \ {p} : ~InPass(q)

\* one pass is in the middle of its commands while another invocation waits
\* for the mutex
PassesSerializedWitness ==
    \E p, q \in Passes :
        /\ p # q
        /\ q \in invoked
        /\ pc[p] = "networks"
        /\ lock = p
        /\ pc[q] = "idle"

NginxNode(p) ==
    CHOOSE n \in Range(result[p].nodes) : n.id = <<"n","g","i","n","x">>

\* C12: the nginx node is Running exactly when the status query succeeded
\* and its trimmed output is "active", Stopped otherwise; and
\* summary.nginx_status is "running" exactly when the node is Running,
\* "stopped" otherwise.
NginxStatusRule ==
    \A p \in Passes :
        Returned(p) =>
            LET r == host.out[Cmd("status", <<>>)]
                active == r.ok /\ Trim(r.val) = <<"a","c","t","i","v","e">>
            IN  /\ NginxNode(p).status = IF active THEN "Running" ELSE "Stopped"
                /\ result[p].summary.nginx_status =
                      IF NginxNode(p).status = "Running" THEN "running" ELSE "stopped"

\* an output that is "active" only after trimming gave a Running node
NginxStatusWitness ==
    \E p \in Passes :
        /\ Returned(p)
        /\ host.out[Cmd("status", <<>>)] = Ok(<<" ","a","c","t","i","v","e"," ","\n">>)
        /\ NginxNode(p).status = "Running"
        /\ result[p].summary.nginx_status = "running"

\* the text before the first p in s (all of s without p), after the first p,
\* and after the last p
TextBefore(s, p) == IF Find(s, p) = 0 THEN s ELSE SubSeq(s, 1, Find(s, p) - 1)

TextAfter(s, p) == SubSeq(s, Find(s, p) + Len(p), Len(s))

RECURSIVE TextAfterLast(_, _)
TextAfterLast(s, p) ==
    IF Find(s, p) = 0 THEN s ELSE TextAfterLast(TextAfter(s, p), p)

\* a line "containerPort/protocol -> hostBinding": one "->" separator
HasPortShape(line) ==
    Find(line, <<"-",">">>) # 0 /\ Find(TextAfter(line, <<"-",">">>), <<"-",">">>) = 0

\* what the claim requires of a list of port lines
RECURSIVE ExpectedPorts(_)
ExpectedPorts(lines) ==
    IF lines = <<>> THEN <<>>
    ELSE LET left == Trim(TextBefore(Head(lines), <<"-",">">>))
             right == Trim(TextAfter(Head(lines), <<"-",">">>))
         IN  (IF HasPortShape(Head(lines)) /\ TextAfterLast(right, <<":">>) # <<>>
              THEN <<[container_port |-> TextBefore(left, <<"/">>),
                      protocol |-> IF Find(left, <<"/">>) = 0 THEN <<"t","c","p">>
                                   ELSE TextAfter(left, <<"/">>),
                      host_port |-> TextAfterLast(right, <<":">>)]>>
              ELSE <<>>)
             \o ExpectedPorts(Tail(lines))

ParsedPorts(name) ==
    [i \in DOMAIN get_container_ports(name) |->
        [container_port |-> get_container_ports(name)[i].container_port,
         protocol |-> get_container_ports(name)[i].protocol,
         host_port |-> get_container_ports(name)[i].host_port]]

\* C13: get_container_ports yields one mapping per line of the shape
\* containerPort/protocol -> hostBinding, with container_port the text before
\* '/', protocol the text after it ("tcp" without '/') and host_port the text
\* after the last ':'; a line without "->" or with an empty host port yields
\* nothing; a failed command yields no mapping.
PortParsing ==
    \A name \in ContainerNames :
        LET r == host.out[Cmd("port", name)]
        IN  ParsedPorts(name) = IF r.ok THEN ExpectedPorts(Lines(r.val)) ELSE <<>>

\* the port layer has run on a host with an IPv4 and an IPv6 line for web and
\* a line without protocol for app
PortParsingWitness ==
    \E p \in Passes :
        /\ pc[p] = "summary"
        /\ host.out[Cmd("port", <<"w","e","b">>)] = Ok(PortTwice)
        /\ host.out[Cmd("port", <<"a","p","p">>)] = Ok(PortNoProto)
        /\ ParsedPorts(<<"w","e","b">>) =
              <<[container_port |-> <<"8","0">>, protocol |-> <<"t","c","p">>, host_port |-> <<"8","0","8","0">>],
                [container_port |-> <<"8","0">>, protocol |-> <<"t","c","p">>, host_port |-> <<"8","0","8","0">>]>>
        /\ ParsedPorts(<<"a","p","p">>) =
              <<[container_port |-> <<"3","0","0","0">>, protocol |-> <<"t","c","p">>,
                 host_port |-> <<"8","0","8","0">>]>>
        /\ Len(containers[p]) = 2

IsPrefix(s, t) == Len(s) <= Len(t) /\ SubSeq(t, 1, Len(s)) = s

\* a step only appends to the node list and the edge list of every pass
AppendOnly ==
    \A p \in Passes :
        IsPrefix(nodes[p], nodes'[p]) /\ IsPrefix(edges[p], edges'[p])

\* the place of a node type in the layer order
LayerRank(type) ==
    CASE type = "Internet" -> 1
      [] type = "Nginx" -> 2
      [] type = "HostNetwork" -> 3
      [] type = "Vhost" -> 4
      [] type = "Container" -> 5
      [] type = "DockerNetwork" -> 6
      [] type = "HostPort" -> 7

\* internet, nginx, host_network, then the vhosts, the containers, the
\* networks and the host ports
InLayerOrder(ns) ==
    /\ Len(ns) >= 3
    /\ \A i \in 1..3 : LayerRank(ns[i].node_type) = i
    /\ \A i \in DOMAIN ns : i > 3 => LayerRank(ns[i].node_type) > 3
    /\ \A i, j \in DOMAIN ns :
          i < j => LayerRank(ns[i].node_type) <= LayerRank(ns[j].node_type)

\* C14: throughout a pass the node list and the edge list only grow by
\* appending, and the returned node list is in layer order: internet, nginx,
\* host_network, vhost nodes, container nodes, network nodes, hostport nodes.
AppendOnlyInLayerOrder ==
    /\ [][AppendOnly]_vars
    /\ [](\A p \in Passes : Returned(p) => InLayerOrder(result[p].nodes))

\* a returned graph with nodes of all seven types
LayerOrderWitness ==
    \E p \in Passes :
        /\ Returned(p)
        /\ {n.node_type : n \in Range(result[p].nodes)} =
              {"Internet", "Nginx", "HostNetwork", "Vhost", "Container",
               "DockerNetwork", "HostPort"}
        /\ Len(result[p].nodes) > 7

NodesOfType(p, type) ==
    {i \in DOMAIN result[p].nodes : result[p].nodes[i].node_type = type}

NodesOfTypeWithStatus(p, type, status) ==
    {i \in NodesOfType(p, type) : result[p].nodes[i].status = status}

\* C15: the summary of a returned graph agrees with its node list:
\* total_containers, running_containers, total_vhosts, enabled_vhosts and
\* total_networks count the Container nodes, the Running Container nodes, the
\* Vhost nodes, the Healthy Vhost nodes and the DockerNetwork nodes; so
\* running <= total for containers and enabled <= total for vhosts.
SummaryAgreesWithNodes ==
    \A p \in Passes :
        Returned(p) =>
            LET s == result[p].summary
            IN  /\ s.total_containers = Cardinality(NodesOfType(p, "Container"))
                /\ s.running_containers =
                      Cardinality(NodesOfTypeWithStatus(p, "Container", "Running"))
                /\ s.total_vhosts = Cardinality(NodesOfType(p, "Vhost"))
                /\ s.enabled_vhosts =
                      Cardinality(NodesOfTypeWithStatus(p, "Vhost", "Healthy"))
                /\ s.total_networks = Cardinality(NodesOfType(p, "DockerNetwork"))
                /\ s.running_containers <= s.total_containers
                /\ s.enabled_vhosts <= s.total_vhosts

\* a summary that counts a stopped container and a disabled vhost
SummaryWitness ==
    \E p \in Passes :
        /\ Returned(p)
        /\ result[p].summary.running_containers = 1
        /\ result[p].summary.total_containers = 2
        /\ result[p].summary.enabled_vhosts = 1
        /\ result[p].summary.total_vhosts = 2
        /\ result[p].summary.total_networks = 2
====
